---- MODULE Spec2Model ----
(***************************************************************************)
(* A model of podfickle (src/podfickle.py): the bounded-retry helper       *)
(* retry_on_error, the AO3 browser session (home, accept_tos, login), the  *)
(* work scraper load_work_data, the form filler new_podfic and the two     *)
(* flows run_describe and run_post.                                        *)
(*                                                                         *)
(* Texts whose content the program inspects or builds (titles, series      *)
(* names, the series label) are sequences of one-character strings; tags   *)
(* and element ids, which the program only passes on or compares whole,    *)
(* are strings.                                                            *)
(***************************************************************************)
EXTENDS Integers, Sequences, FiniteSets, TLC

VARIABLES
    \* ---- the frame of one retry_on_error call
    error_type,       \* the guarded exception class (parameter error_type)
    attempts0,        \* the value of the parameter attempts at the call
    attempts,         \* the local attempts, decremented by the handler
    final_error,      \* the local final_error
    invocations,      \* history: the outcome of each action() call, in order
    warnings_logged,  \* number of _log.warning(message) calls
    sleeps,           \* number of sleep(interval) calls
    rstatus,          \* "idle", "running", "returned" or "raised"
    rvalue,           \* the value returned or the exception raised
    \* ---- the run of one subcommand
    subcommand,       \* "describe" or "post" (or "none": retry_on_error alone)
    base_url,         \* args.base_url, kept as AO3.base_url
    config,           \* the parsed Config
    pc,               \* the statement the run is at
    session,          \* the Chrome session: "none", "open" or "quit"
    page,             \* the work page as load_work_data found it (or None)
    work,             \* the Work returned by load_work_data (or None)
    podfic,           \* the PodficWork / PodficEpisode built from it (or None)
    events,           \* the browser interactions performed, in order
    status,           \* "running", "returned" or "raised"
    error,            \* the exception that ended the run (or None)
    errors_logged,    \* the messages of the _log.error calls, in order
    cleaned           \* the Urls returned by the clean_urls() calls, in order

retryVars == <<error_type, attempts0, attempts, final_error, invocations,
               warnings_logged, sleeps, rstatus, rvalue>>
runVars == <<subcommand, base_url, config, pc, session, page, work, podfic,
             events, status, error, errors_logged, cleaned>>
vars == <<error_type, attempts0, attempts, final_error, invocations,
          warnings_logged, sleeps, rstatus, rvalue,
          subcommand, base_url, config, pc, session, page, work, podfic,
          events, status, error, errors_logged, cleaned>>

(***************************************************************************)
(* Bounds of the model.                                                    *)
(***************************************************************************)
MaxAttempts == 4
MaxNegative == 1

(***************************************************************************)
(* Values.                                                                 *)
(***************************************************************************)
None == [none |-> TRUE]

\* An exception: its class and the action() invocation that raised it
\* (0: raised by no invocation).
Exc(kind, by) == [kind |-> kind, by |-> by]

\* isinstance(e, cls) over the exception classes the program meets.
IsInstance(kind, cls) == cls = "BaseException" \/ kind = cls

ExceptionClasses ==
    {"BaseException", "ElementNotInteractableException", "NoSuchElementException"}

\* What one call of action() can do: return a value, or raise an exception
\* of one of the selenium classes.  The value and the exception carry the
\* number of the invocation that produced them.
ActionOutcomes(i) ==
    {[ok |-> TRUE, value |-> [from |-> i]]} \cup
    {[ok |-> FALSE, exc |-> Exc(k, i)] :
        k \in {"ElementNotInteractableException", "NoSuchElementException"}}

(***************************************************************************)
(* retry_on_error                                                          *)
(***************************************************************************)
\* attempts: int = 5
DefaultAttempts == 5

\* final_error = BaseException()
InitialFinalError == Exc("BaseException", 0)

\* while attempts > 0
LoopGuardNoLastAttempt(a) == a > 1
LoopGuard(a) == a > 0

\* except error_type as error
CatchesAnything(cls, exc) == TRUE
Catches(cls, exc) == IsInstance(exc.kind, cls)

\* final_error = error
SaveErrorKeepFirst(old, exc) == IF old = InitialFinalError THEN exc ELSE old
SaveError(old, exc) == exc

\* The call itself: the parameters are bound and final_error is initialised.
RetryEnter(cls, n) ==
    /\ error_type' = cls
    /\ attempts0' = n
    /\ attempts' = n
    /\ final_error' = InitialFinalError
    /\ invocations' = <<>>
    /\ warnings_logged' = 0
    /\ sleeps' = 0
    /\ rstatus' = "running"
    /\ rvalue' = None

\* One iteration in which action() returns: return action().
RetrySuccess ==
    /\ rstatus = "running"
    /\ LoopGuard(attempts)
    /\ \E out \in ActionOutcomes(Len(invocations) + 1) :
        /\ out.ok
        /\ invocations' = Append(invocations, out)
        /\ rstatus' = "returned"
        /\ rvalue' = out.value
    /\ UNCHANGED <<error_type, attempts0, attempts, final_error,
                   warnings_logged, sleeps>>
    /\ UNCHANGED runVars

\* One iteration in which action() raises an exception the handler catches:
\* remember it, warn, use up one attempt, sleep.
RetryCaught ==
    /\ rstatus = "running"
    /\ LoopGuard(attempts)
    /\ \E out \in ActionOutcomes(Len(invocations) + 1) :
        /\ ~out.ok
        /\ Catches(error_type, out.exc)
        /\ invocations' = Append(invocations, out)
        /\ final_error' = SaveError(final_error, out.exc)
    /\ warnings_logged' = warnings_logged + 1
    /\ attempts' = attempts - 1
    /\ sleeps' = sleeps + 1
    /\ UNCHANGED <<error_type, attempts0, rstatus, rvalue>>
    /\ UNCHANGED runVars

\* One iteration in which action() raises an exception the handler does not
\* catch: it leaves retry_on_error.
RetryUncaught ==
    /\ rstatus = "running"
    /\ LoopGuard(attempts)
    /\ \E out \in ActionOutcomes(Len(invocations) + 1) :
        /\ ~out.ok
        /\ ~Catches(error_type, out.exc)
        /\ invocations' = Append(invocations, out)
        /\ rstatus' = "raised"
        /\ rvalue' = out.exc
    /\ UNCHANGED <<error_type, attempts0, attempts, final_error,
                   warnings_logged, sleeps>>
    /\ UNCHANGED runVars

\* The loop is left with no attempt remaining: raise final_error.
RetryExhausted ==
    /\ rstatus = "running"
    /\ ~LoopGuard(attempts)
    /\ rstatus' = "raised"
    /\ rvalue' = final_error
    /\ UNCHANGED <<error_type, attempts0, attempts, final_error, invocations,
                   warnings_logged, sleeps>>
    /\ UNCHANGED runVars

\* The frame of a call that is over is dropped.
RetryLeave ==
    /\ error_type' = "BaseException"
    /\ attempts0' = 0
    /\ attempts' = 0
    /\ final_error' = InitialFinalError
    /\ invocations' = <<>>
    /\ warnings_logged' = 0
    /\ sleeps' = 0
    /\ rstatus' = "idle"
    /\ rvalue' = None

RunIdle ==
    /\ subcommand = "none"
    /\ base_url = None
    /\ config = None
    /\ pc = "retry_on_error"
    /\ session = "none"
    /\ page = None
    /\ work = None
    /\ podfic = None
    /\ events = <<>>
    /\ status = "running"
    /\ error = None
    /\ errors_logged = <<>>
    /\ cleaned = <<>>

\* retry_on_error called on its own, with any guarded class and any value of
\* attempts, on an action whose outcomes are arbitrary.
InitRetry ==
    /\ error_type \in ExceptionClasses
    /\ attempts0 \in (0 - MaxNegative)..MaxAttempts
    /\ attempts = attempts0
    /\ final_error = InitialFinalError
    /\ invocations = <<>>
    /\ warnings_logged = 0
    /\ sleeps = 0
    /\ rstatus = "running"
    /\ rvalue = None
    /\ RunIdle

NextRetry == RetrySuccess \/ RetryCaught \/ RetryUncaught \/ RetryExhausted

SpecRetry == InitRetry /\ [][NextRetry]_vars

(***************************************************************************)
(* Texts, URLs and browser interactions.                                   *)
(***************************************************************************)
MaxWarnings == 2
MaxFreeform == 1

Digits == {"0", "1", "2", "3", "4", "5", "6", "7", "8", "9"}

StartsWith(t, prefix) ==
    /\ Len(t) >= Len(prefix)
    /\ SubSeq(t, 1, Len(prefix)) = prefix

\* A URL, or a reference to resolve against one (scheme "": a relative
\* reference made of an absolute path).
Url(scheme, netloc, path) == [scheme |-> scheme, netloc |-> netloc, path |-> path]
NoUrl == Url("", "", <<>>)

\* urljoin resolving an absolute path by appending it to the base's path.
UrlJoinAppend(base, ref) ==
    IF ref.scheme # "" THEN ref
    ELSE Url(base.scheme, base.netloc, base.path \o ref.path)

\* urljoin(base, ref) for an absolute URL or an absolute path as ref.
UrlJoin(base, ref) ==
    IF ref.scheme # "" THEN ref
    ELSE Url(base.scheme, base.netloc, ref.path)

\* AO3._url
AO3Url(path) == UrlJoin(base_url, Url("", "", path))

\* One interaction with the browser.
Ev(op, id, value, text, url) ==
    [op |-> op, id |-> id, value |-> value, text |-> text, url |-> url]

Get(url) == Ev("get", "", "", <<>>, url)
Find(id) == Ev("find", id, "", <<>>, NoUrl)
Click(id) == Ev("click", id, "", <<>>, NoUrl)
SendKeys(id, value) == Ev("send_keys", id, value, <<>>, NoUrl)
SendText(id, text) == Ev("send_keys", id, "", text, NoUrl)
SendUrl(id, url) == Ev("send_keys", id, "", <<>>, url)
Submit(id) == Ev("submit", id, "", <<>>, NoUrl)
Quit == Ev("quit", "", "", <<>>, NoUrl)

\* AO3._click_checkbox_value: find_element_by_xpath("//input[@value=...]").click()
ClickCheckbox(value) == Ev("click_checkbox", "", value, <<>>, NoUrl)

\* AO3._select_value_text: Select(element).select_by_visible_text(text)
SelectValue(id, value) == Ev("select", id, value, <<>>, NoUrl)
SelectText(id, text) == Ev("select", id, "", text, NoUrl)

\* Each tag typed, none committed.
FillTagsNoEnter(id, tags) ==
    [i \in 1..Len(tags) |-> SendKeys(id, tags[i])]

\* _fill_tags: each tag is typed, then committed with Keys.ENTER.
FillTags(id, tags) ==
    [i \in 1..(2 * Len(tags)) |->
        IF i % 2 = 1 THEN SendKeys(id, tags[(i + 1) \div 2])
        ELSE SendKeys(id, "Keys.ENTER")]

\* _ADDITIONAL_PODFIC_TAGS
AdditionalPodficTags == <<"Podfic", "Podfic & Podficced Works">>

\* The exception an interaction raises when the page lacks its element:
\* a bounded wait by id times out, a direct lookup finds no such element.
MissingElementError(ev) ==
    IF ev.op \in {"click_checkbox", "select"}
    THEN Exc("NoSuchElementException", 0)
    ELSE Exc("TimeoutException", 0)

(***************************************************************************)
(* Inputs: arguments, configuration, the work page.                        *)
(***************************************************************************)
BaseUrls ==
    {Url("https", "archiveofourown.org", <<>>),
     Url("http", "localhost:3000", <<"mirror">>)}

\* ---- urllib.parse, on texts of one character per element
LowerCase ==
    <<"a", "b", "c", "d", "e", "f", "g", "h", "i", "j", "k", "l", "m", "n", "o", "p", "q", "r", "s", "t", "u", "v", "w", "x", "y", "z">>
UpperCase ==
    <<"A", "B", "C", "D", "E", "F", "G", "H", "I", "J", "K", "L", "M", "N", "O", "P", "Q", "R", "S", "T", "U", "V", "W", "X", "Y", "Z">>
Range(q) == {q[i] : i \in 1..Len(q)}

\* str.lower on one character
Lower(c) ==
    IF c \in Range(UpperCase)
    THEN LowerCase[CHOOSE i \in 1..Len(UpperCase) : UpperCase[i] = c]
    ELSE c

\* scheme_chars
SchemeChars ==
    Range(LowerCase) \cup Range(UpperCase)
    \cup {"0", "1", "2", "3", "4", "5", "6", "7", "8", "9", "+", "-", "."}

\* uses_params
UsesParams ==
    {<<>>,
     <<"f", "t", "p">>,
     <<"h", "d", "l">>,
     <<"p", "r", "o", "s", "p", "e", "r", "o">>,
     <<"h", "t", "t", "p">>,
     <<"i", "m", "a", "p">>,
     <<"h", "t", "t", "p", "s">>,
     <<"s", "h", "t", "t", "p">>,
     <<"r", "t", "s", "p">>,
     <<"r", "t", "s", "p", "s">>,
     <<"r", "t", "s", "p", "u">>,
     <<"s", "i", "p">>,
     <<"s", "i", "p", "s">>,
     <<"m", "m", "s">>,
     <<"s", "f", "t", "p">>,
     <<"t", "e", "l">>}

\* uses_netloc
UsesNetloc ==
    {<<>>,
     <<"f", "t", "p">>,
     <<"h", "t", "t", "p">>,
     <<"g", "o", "p", "h", "e", "r">>,
     <<"n", "n", "t", "p">>,
     <<"t", "e", "l", "n", "e", "t">>,
     <<"i", "m", "a", "p">>,
     <<"w", "a", "i", "s">>,
     <<"f", "i", "l", "e">>,
     <<"m", "m", "s">>,
     <<"h", "t", "t", "p", "s">>,
     <<"s", "h", "t", "t", "p">>,
     <<"s", "n", "e", "w", "s">>,
     <<"p", "r", "o", "s", "p", "e", "r", "o">>,
     <<"r", "t", "s", "p">>,
     <<"r", "t", "s", "p", "s">>,
     <<"r", "t", "s", "p", "u">>,
     <<"r", "s", "y", "n", "c">>,
     <<"s", "v", "n">>,
     <<"s", "v", "n", "+", "s", "s", "h">>,
     <<"s", "f", "t", "p">>,
     <<"n", "f", "s">>,
     <<"g", "i", "t">>,
     <<"g", "i", "t", "+", "s", "s", "h">>,
     <<"w", "s">>,
     <<"w", "s", "s">>}

\* t.find(c, from - 1) + 1: the first position of c in t at or after from,
\* 0 when there is none.
IndexFrom(t, c, from) ==
    LET at == {i \in from..Len(t) : t[i] = c}
    IN  IF at = {} THEN 0 ELSE CHOOSE i \in at : \A j \in at : i <= j

\* t.rfind(c) + 1
LastIndex(t, c) ==
    LET at == {i \in 1..Len(t) : t[i] = c}
    IN  IF at = {} THEN 0 ELSE CHOOSE i \in at : \A j \in at : i >= j

\* Texts, and what the stages of urlsplit hand on.  The stages are functions:
\* each works on the value the stage before it returned.
Texts == Seq(STRING)
SchemeSplit == [scheme : Texts, rest : Texts]
NetlocSplit == [scheme : Texts, netloc : Texts, rest : Texts]
FragmentSplit == [scheme : Texts, netloc : Texts, rest : Texts, fragment : Texts]
SplitResult ==
    [scheme : Texts, netloc : Texts, path : Texts, query : Texts, fragment : Texts]

\* t.split(c, 1) when c is in t, (t, "") otherwise
SplitOnce(t, c) ==
    IF IndexFrom(t, c, 1) > 0
    THEN [head |-> SubSeq(t, 1, IndexFrom(t, c, 1) - 1),
          tail |-> SubSeq(t, IndexFrom(t, c, 1) + 1, Len(t))]
    ELSE [head |-> t, tail |-> <<>>]

\* urlsplit: the scheme is what precedes the first ":" when it starts with a
\* letter and is spelt in scheme characters; it is lowered.
SplitScheme[url \in Texts] ==
    IF /\ IndexFrom(url, ":", 1) > 1
       /\ url[1] \in Range(LowerCase) \cup Range(UpperCase)
       /\ \A k \in 1..(IndexFrom(url, ":", 1) - 1) : url[k] \in SchemeChars
    THEN [scheme |-> [k \in 1..(IndexFrom(url, ":", 1) - 1) |-> Lower(url[k])],
          rest |-> SubSeq(url, IndexFrom(url, ":", 1) + 1, Len(url))]
    ELSE [scheme |-> <<>>, rest |-> url]

\* _splitnetloc(url, 2): the end of the netloc is the first "/", "?" or "#"
\* after the "//", or the end of the text.
NetlocEnd(t) ==
    LET delims == {k \in 3..Len(t) : t[k] \in {"/", "?", "#"}}
    IN  IF delims = {} THEN Len(t) + 1
        ELSE CHOOSE k \in delims : \A m \in delims : k <= m

\* urlsplit: if url[:2] == '//': netloc, url = _splitnetloc(url, 2)
SplitNetloc[s \in SchemeSplit] ==
    IF StartsWith(s.rest, <<"/", "/">>)
    THEN [scheme |-> s.scheme,
          netloc |-> SubSeq(s.rest, 3, NetlocEnd(s.rest) - 1),
          rest |-> SubSeq(s.rest, NetlocEnd(s.rest), Len(s.rest))]
    ELSE [scheme |-> s.scheme, netloc |-> <<>>, rest |-> s.rest]

\* urlsplit: if '#' in url: url, fragment = url.split('#', 1)
SplitFragment[s \in NetlocSplit] ==
    [scheme |-> s.scheme, netloc |-> s.netloc,
     rest |-> SplitOnce(s.rest, "#").head,
     fragment |-> SplitOnce(s.rest, "#").tail]

\* urlsplit: if '?' in url: url, query = url.split('?', 1)
SplitQuery[s \in FragmentSplit] ==
    [scheme |-> s.scheme, netloc |-> s.netloc,
     path |-> SplitOnce(s.rest, "?").head,
     query |-> SplitOnce(s.rest, "?").tail,
     fragment |-> s.fragment]

\* urlsplit
UrlSplit[url \in Texts] == SplitQuery[SplitFragment[SplitNetloc[SplitScheme[url]]]]

\* _splitparams: the parameters are what follows the first ";" of the last
\* path segment.
SplitParams[url \in Texts] ==
    LET i == IF LastIndex(url, "/") > 0
             THEN IndexFrom(url, ";", LastIndex(url, "/"))
             ELSE IndexFrom(url, ";", 1)
    IN  IF i = 0 THEN [path |-> url, params |-> <<>>]
        ELSE [path |-> SubSeq(url, 1, i - 1),
              params |-> SubSeq(url, i + 1, Len(url))]

\* urlparse: if scheme in uses_params and ';' in url: url, params =
\* _splitparams(url)
ParseSplit[s \in SplitResult] ==
    IF s.scheme \in UsesParams /\ IndexFrom(s.path, ";", 1) > 0
    THEN [scheme |-> s.scheme, netloc |-> s.netloc,
          path |-> SplitParams[s.path].path,
          params |-> SplitParams[s.path].params,
          query |-> s.query, fragment |-> s.fragment]
    ELSE [scheme |-> s.scheme, netloc |-> s.netloc, path |-> s.path,
          params |-> <<>>, query |-> s.query, fragment |-> s.fragment]

\* urlparse
UrlParse[url \in Texts] == ParseSplit[UrlSplit[url]]

\* urlunsplit, from the netloc on
WithNetloc(scheme, netloc, url) ==
    IF \/ netloc # <<>>
       \/ /\ scheme # <<>>
          /\ scheme \in UsesNetloc
          /\ ~StartsWith(url, <<"/", "/">>)
    THEN <<"/", "/">> \o netloc \o
         (IF url # <<>> /\ url[1] # "/" THEN <<"/">> \o url ELSE url)
    ELSE url

\* urlunsplit
UrlUnsplit(scheme, netloc, url, query, fragment) ==
    (IF scheme # <<>> THEN scheme \o <<":">> ELSE <<>>)
    \o WithNetloc(scheme, netloc, url)
    \o (IF query # <<>> THEN <<"?">> \o query ELSE <<>>)
    \o (IF fragment # <<>> THEN <<"#">> \o fragment ELSE <<>>)

\* urlunparse
UrlUnparse(scheme, netloc, url, params, query, fragment) ==
    UrlUnsplit(scheme, netloc,
               IF params # <<>> THEN url \o <<";">> \o params ELSE url,
               query, fragment)

ParseResult ==
    [scheme : Texts, netloc : Texts, path : Texts, params : Texts,
     query : Texts, fragment : Texts]

\* urlunparse(parts[0:3] + ("", "", ""))
UnparseFirstThree[parts \in ParseResult] ==
    UrlUnparse(parts.scheme, parts.netloc, parts.path, <<>>, <<>>, <<>>)

\* _clean_url_path
CleanUrlPath(url) == UnparseFirstThree[UrlParse[url]]

UrlsFields == {"spotify", "anchor_fm", "google_drive", "mediafire"}

\* Urls.clean_urls
CleanUrls(urls) ==
    [spotify |-> CleanUrlPath(urls.spotify),
     anchor_fm |-> CleanUrlPath(urls.anchor_fm),
     google_drive |-> CleanUrlPath(urls.google_drive),
     mediafire |-> CleanUrlPath(urls.mediafire)]

\* https://s.co/e?s=x, https://a.fm/e, https://g.co/f;v?u=s, https://m.co/f#t
SampleUrls ==
    [spotify |-> <<"h", "t", "t", "p", "s", ":", "/", "/", "s", ".", "c", "o", "/", "e", "?", "s", "=", "x">>,
     anchor_fm |-> <<"h", "t", "t", "p", "s", ":", "/", "/", "a", ".", "f", "m", "/", "e">>,
     google_drive |-> <<"h", "t", "t", "p", "s", ":", "/", "/", "g", ".", "c", "o", "/", "f", ";", "v", "?", "u", "=", "s">>,
     mediafire |-> <<"h", "t", "t", "p", "s", ":", "/", "/", "m", ".", "c", "o", "/", "f", "#", "t">>]

Configs ==
    {[ao3_username |-> "podficcer",
      tumblr |-> "podficcer-blog",
      parent |-> [work_id |-> "1234", explicit |-> FALSE, tumblr |-> None],
      urls |-> u] : u \in {None, SampleUrls}}

Sentinel == "Creator Chose Not To Use Archive Warnings"
OptOut == "Choose Not To Use Archive Warnings"

WarningTags == {Sentinel, "Graphic Depictions Of Violence", "Major Character Death"}
RatingLists ==
    {<<>>, <<"Teen And Up Audiences">>, <<"Explicit">>,
     <<"Teen And Up Audiences", "Explicit">>}
CategoryTags == {"F/F", "Gen"}
FreeformTags == {"Fluff"}

SeqsUpTo(S, n) == UNION {[1..k -> S] : k \in 0..n}

\* The archive renders each warning of a work once: lists without repeats.
DistinctSeqsUpTo(S, n) ==
    {q \in SeqsUpTo(S, n) : \A i, j \in 1..Len(q) : q[i] = q[j] => i = j}

\* Texts, one character per element.
T_Part == <<"P", "a", "r", "t", " ">>
T_OfThe == <<" ", "o", "f", " ", "t", "h", "e">>
T_Arc == <<"A", "r", "c">>
T_Series == <<" ", "s", "e", "r", "i", "e", "s">>
T_Podfic == <<"[", "p", "o", "d", "f", "i", "c", "]", " ">>

T_FooBar == <<"F", "o", "o", " ", "B", "a", "r">>

\* What the "position in series" element can read.
SeriesLabels ==
    { T_Part \o n \o T_OfThe \o <<" ">> \o T_Arc \o T_Series :
        n \in {<<"0">>, <<"1">>, <<"2">>, <<"3">>, <<"1", "2">>, <<"0", "1">>,
               <<>>} }
    \cup
    { <<"p", "a", "r", "t", " ", "3">> \o T_OfThe \o <<" ">> \o T_Arc,
      <<"(">> \o T_Part \o <<"1">> \o T_OfThe \o <<" ">> \o T_Arc,
      T_Part \o <<"3", " ", "o", "f", " ", "a", " ">> \o T_Arc,
      T_Part \o <<"2", "n", "d">> \o T_OfThe,
      T_Part \o <<"1">> \o T_OfThe }

\* The series markup of a page: whether span.series span.position is there,
\* whether it holds a link, the link's text and the element's text.
SeriesMarkups ==
    {[position |-> FALSE, link |-> FALSE, name |-> <<>>, label |-> <<>>]}
    \cup
    {[position |-> TRUE, link |-> FALSE, name |-> <<>>, label |-> l] :
        l \in {T_Part \o <<"2">> \o T_OfThe, <<"P", "a", "r", "t">>}}
    \cup
    {[position |-> TRUE, link |-> TRUE, name |-> T_Arc, label |-> l] :
        l \in SeriesLabels}
    \cup
    {[position |-> TRUE, link |-> TRUE, name |-> T_FooBar, label |-> l] :
        l \in {T_Part \o <<"1">> \o T_OfThe \o <<" ">> \o T_FooBar \o T_Series,
               T_Part \o <<"3">> \o T_OfThe \o <<" ">> \o T_FooBar}}

Titles == {<<"M", "y", " ", "S", "t", "o", "r", "y">>, <<>>}

\* The rendered work page: which of the fixed headings it lacks ("none",
\* "title", "byline", "summary") and what the selectors of load_work_data
\* find on it.
PageOf(a, t, r, w, f, s) ==
    [absent |-> a,
     title |-> t,
     author |-> "Author",
     author_href |-> Url("", "", <<"users", "Author">>),
     summary |-> "<p>Summary</p>",
     rating |-> r,
     warning |-> w,
     category |-> <<"F/F", "Gen">>,
     fandom |-> <<"Fandom A">>,
     relationship |-> <<"A/B">>,
     character |-> <<"A", "B">>,
     freeform |-> f,
     series |-> s]

Pages ==
    {PageOf("none", <<"M", "y", " ", "S", "t", "o", "r", "y">>, r, w, f, s) :
        r \in RatingLists,
        w \in DistinctSeqsUpTo(WarningTags, MaxWarnings),
        f \in SeqsUpTo(FreeformTags, MaxFreeform),
        s \in SeriesMarkups}
    \cup
    {PageOf("none", t, <<"Explicit">>, <<Sentinel>>, f, s) :
        t \in Titles,
        f \in {<<>>, <<"Angst", "Fluff">>, <<"Fluff", "Angst">>},
        s \in {m \in SeriesMarkups : ~m.position}}
    \cup
    {PageOf(a, <<>>, <<"Explicit">>, <<Sentinel>>, <<>>, s) :
        a \in {"title", "byline", "summary"},
        s \in {m \in SeriesMarkups : ~m.link}}

(***************************************************************************)
(* load_work_data                                                          *)
(***************************************************************************)
RECURSIVE DigitRun(_, _)
\* How many digits t holds from position from on.
DigitRun(t, from) ==
    IF from <= Len(t) /\ t[from] \in Digits
    THEN 1 + DigitRun(t, from + 1)
    ELSE 0

NoMatch == None

\* re.search instead of re.match: the pattern is looked for anywhere in t.
RECURSIVE RxSearchPartNOfThe(_)
RxSearchPartNOfThe(t) ==
    IF t = <<>> THEN NoMatch
    ELSE LET n == IF StartsWith(t, T_Part) THEN DigitRun(t, Len(T_Part) + 1) ELSE 0
             rest == SubSeq(t, Len(T_Part) + n + 1, Len(t))
         IN  IF n > 0 /\ StartsWith(rest, T_OfThe)
             THEN [group1 |-> SubSeq(t, Len(T_Part) + 1, Len(T_Part) + n)]
             ELSE RxSearchPartNOfThe(Tail(t))

\* _RX_PART_N_OF_THE.match(t): "Part ", one or more digits taken greedily,
\* " of the", from the first character of t; what follows is not looked at.
RxPartNOfThe(t) ==
    IF ~StartsWith(t, T_Part) THEN NoMatch
    ELSE LET n == DigitRun(t, Len(T_Part) + 1)
             rest == SubSeq(t, Len(T_Part) + n + 1, Len(t))
         IN  IF n > 0 /\ StartsWith(rest, T_OfThe)
             THEN [group1 |-> SubSeq(t, Len(T_Part) + 1, Len(T_Part) + n)]
             ELSE NoMatch

DigitValue(c) ==
    CASE c = "0" -> 0 [] c = "1" -> 1 [] c = "2" -> 2 [] c = "3" -> 3
      [] c = "4" -> 4 [] c = "5" -> 5 [] c = "6" -> 6 [] c = "7" -> 7
      [] c = "8" -> 8 [] c = "9" -> 9

RECURSIVE ParseInt(_)
\* int(ds) for a non-empty text of digits.
ParseInt(ds) ==
    IF ds = <<>> THEN 0
    ELSE 10 * ParseInt(SubSeq(ds, 1, Len(ds) - 1)) + DigitValue(ds[Len(ds)])

\* The try block with the label parsed before the link is looked up.
ScrapeSeriesParseFirst(p) ==
    IF ~p.series.position
    THEN [raises |-> None, series_part |-> None]
    ELSE LET match == RxPartNOfThe(p.series.label) IN
         IF match = NoMatch
         THEN [raises |-> Exc("AssertionError", 0), series_part |-> None]
         ELSE IF ~p.series.link
         THEN [raises |-> None, series_part |-> None]
         ELSE [raises |-> None,
               series_part |-> [series |-> p.series.name,
                                part |-> ParseInt(match.group1)]]

\* The try block of load_work_data: a NoSuchElementException of either
\* lookup leaves series_part None; a label the pattern does not match fails
\* the assertion.
ScrapeSeries(p) ==
    IF ~p.series.position \/ ~p.series.link
    THEN [raises |-> None, series_part |-> None]
    ELSE LET match == RxPartNOfThe(p.series.label) IN
         IF match = NoMatch
         THEN [raises |-> Exc("AssertionError", 0), series_part |-> None]
         ELSE [raises |-> None,
               series_part |-> [series |-> p.series.name,
                                part |-> ParseInt(match.group1)]]

\* The Work built from page p, or the exception that ends load_work_data.
LoadWork(p, work_id, url) ==
    IF p.absent # "none"
    THEN [raises |-> Exc("NoSuchElementException", 0), work |-> None]
    ELSE LET s == ScrapeSeries(p) IN
         IF s.raises # None
         THEN [raises |-> s.raises, work |-> None]
         ELSE [raises |-> None,
               work |-> [id |-> work_id,
                         url |-> url,
                         title |-> p.title,
                         author |-> p.author,
                         summary |-> p.summary,
                         rating |-> p.rating,
                         warning |-> p.warning,
                         category |-> p.category,
                         fandom |-> p.fandom,
                         relationship |-> p.relationship,
                         character |-> p.character,
                         freeform |-> p.freeform,
                         series_part |-> s.series_part,
                         author_url |-> UrlJoin(base_url, p.author_href)]]

(***************************************************************************)
(* new_podfic: what each statement does to the browser.                    *)
(***************************************************************************)
\* [work_rating] = work.rating; select it.
RatingEvents(w) == <<SelectValue("work_rating_string", w.rating[1])>>

\* _fill_warnings: the loop clicks the opt-out checkbox for each sentinel;
\* the else of the for runs once after the loop, on the loop variable as
\* the last iteration left it.
WarningEvents(warnings) ==
    LET sentinels == {i \in 1..Len(warnings) : warnings[i] = Sentinel}
    IN  [i \in 1..Cardinality(sentinels) |-> ClickCheckbox(OptOut)]
        \o <<ClickCheckbox(warnings[Len(warnings)])>>

CategoryEvents(w) ==
    [i \in 1..Len(w.category) |-> ClickCheckbox(w.category[i])]

\* The title field given the work's title as it is.
TitleEventsNoPrefix(w) == <<SendText("work_title", w.title)>>

\* send_keys(f"[podfic] {work.title}")
TitleEvents(w) == <<SendText("work_title", T_Podfic \o w.title)>>

\* if work.series_part.part == 1
SeriesIsNewAnyPart(part) == part >= 1
SeriesIsNew(part) == part = 1

SeriesEvents(w) ==
    IF w.series_part = None THEN <<>>
    ELSE LET series_name == T_Podfic \o w.series_part.series IN
         <<Click("series-options-show"),
           IF SeriesIsNew(w.series_part.part)
           THEN SendText("work_series_attributes_title", series_name)
           ELSE SelectText("work_series_attributes_id", series_name)>>

\* The interactions of the statement(s) at `at`, in order.
StatementEvents(at) ==
    CASE at \in {"home1", "home2", "home3"} -> <<Get(AO3Url(<<>>))>>
      [] at = "accept_tos" -> <<Find("tos_agree"), Find("accept_tos")>>
      [] at = "accept_tos_perform" -> <<Click("tos_agree"), Click("accept_tos")>>
      [] at = "login" -> <<Find("login-dropdown")>>
      [] at = "login_perform" -> <<Click("login-dropdown")>>
      [] at = "login_fill" ->
            <<SendKeys("user_session_login_small", config.ao3_username),
              SendKeys("user_session_password_small", "AO3_PASSWORD"),
              Submit("user_session_password_small")>>
      [] at = "load_work_data" ->
            <<Get(AO3Url(<<"works", config.parent.work_id>>))>>
      [] at = "quit" -> <<Quit>>
      [] at = "np_get" -> <<Get(AO3Url(<<"works", "new">>))>>
      [] at = "np_rating" -> RatingEvents(work)
      [] at = "np_warnings" -> WarningEvents(work.warning)
      [] at = "np_fandom" -> FillTags("work_fandom_autocomplete", work.fandom)
      [] at = "np_category" -> CategoryEvents(work)
      [] at = "np_relationship" ->
            FillTags("work_relationship_autocomplete", work.relationship)
      [] at = "np_character" ->
            FillTags("work_character_autocomplete", work.character)
      [] at = "np_freeform" ->
            FillTags("work_freeform_autocomplete", work.freeform)
      [] at = "np_additional" ->
            FillTags("work_freeform_autocomplete", AdditionalPodficTags)
      [] at = "np_title" -> TitleEvents(work)
      [] at = "np_summary" -> <<SendKeys("work_summary", work.summary)>>
      [] at = "np_endnotes" ->
            <<Click("end-notes-options-show"),
              SendKeys("work_endnotes", "podfic.notes()")>>
      [] at = "np_parent" ->
            <<Click("parent-options-show"),
              SendUrl("work_parent_attributes_url", work.url)>>
      [] at = "np_series" -> SeriesEvents(work)
      [] at = "np_language" -> <<SelectValue("work_language_id", "English")>>
      [] at = "np_content" -> <<SendKeys("content", "podfic.content()")>>

\* The statement of new_podfic that follows `at`, with language and content
\* exchanged.
NewPodficNextContentEarly(at) ==
    CASE at = "np_get" -> "np_rating"
      [] at = "np_rating" -> "np_warnings"
      [] at = "np_warnings" -> "np_fandom"
      [] at = "np_fandom" -> "np_category"
      [] at = "np_category" -> "np_relationship"
      [] at = "np_relationship" -> "np_character"
      [] at = "np_character" -> "np_freeform"
      [] at = "np_freeform" -> "np_additional"
      [] at = "np_additional" -> "np_title"
      [] at = "np_title" -> "np_summary"
      [] at = "np_summary" -> "np_endnotes"
      [] at = "np_endnotes" -> "np_parent"
      [] at = "np_parent" -> "np_series"
      [] at = "np_series" -> "np_content"
      [] at = "np_content" -> "np_language"
      [] at = "np_language" -> "done"

\* The statement of new_podfic that follows `at`.
NewPodficNext(at) ==
    CASE at = "np_get" -> "np_rating"
      [] at = "np_rating" -> "np_warnings"
      [] at = "np_warnings" -> "np_fandom"
      [] at = "np_fandom" -> "np_category"
      [] at = "np_category" -> "np_relationship"
      [] at = "np_relationship" -> "np_character"
      [] at = "np_character" -> "np_freeform"
      [] at = "np_freeform" -> "np_additional"
      [] at = "np_additional" -> "np_title"
      [] at = "np_title" -> "np_summary"
      [] at = "np_summary" -> "np_endnotes"
      [] at = "np_endnotes" -> "np_parent"
      [] at = "np_parent" -> "np_series"
      [] at = "np_series" -> "np_language"
      [] at = "np_language" -> "np_content"
      [] at = "np_content" -> "done"

(***************************************************************************)
(* The run: run_describe and run_post.                                     *)
(***************************************************************************)
Init ==
    /\ subcommand \in {"describe", "post"}
    /\ base_url \in BaseUrls
    /\ config \in Configs
    /\ pc = "start"
    /\ session = "none"
    /\ page = None
    /\ work = None
    /\ podfic = None
    /\ events = <<>>
    /\ status = "running"
    /\ error = None
    /\ errors_logged = <<>>
    /\ cleaned = <<>>
    /\ error_type = "BaseException"
    /\ attempts0 = 0
    /\ attempts = 0
    /\ final_error = InitialFinalError
    /\ invocations = <<>>
    /\ warnings_logged = 0
    /\ sleeps = 0
    /\ rstatus = "idle"
    /\ rvalue = None

\* The statements at `at` run to their end and the run goes on at `next`.
Perform(at, next) ==
    /\ status = "running"
    /\ pc = at
    /\ events' = events \o StatementEvents(at)
    /\ pc' = next

\* The run ends with exception e, after the interactions `done`.
Raise(done, e) ==
    /\ events' = events \o done
    /\ status' = "raised"
    /\ error' = e
    /\ pc' = pc

\* A test of the urls section that never finds it missing.
UrlsMissingNever(cfg) == FALSE

\* if config.urls is None
UrlsMissing(cfg) == cfg.urls = None

\* _log.error("To post a podficced work, you must provide urls.")
NoUrlsMessage == "To post a podficced work, you must provide urls."

\* run_describe up to the creation of the session.
RunDescribeStart ==
    /\ status = "running" /\ pc = "start"
    /\ subcommand = "describe"
    /\ session' = "open"
    /\ pc' = "home1"
    /\ UNCHANGED <<cleaned, errors_logged, subcommand, base_url, config, page, work, podfic, events,
                   status, error>>
    /\ UNCHANGED retryVars

\* run_post with no urls in the configuration: log the error and return.
RunPostNoUrls ==
    /\ status = "running" /\ pc = "start"
    /\ subcommand = "post"
    /\ UrlsMissing(config)
    /\ errors_logged' = Append(errors_logged, NoUrlsMessage)
    /\ status' = "returned"
    /\ pc' = "done"
    /\ UNCHANGED <<cleaned, subcommand, base_url, config, session, page, work,
                   podfic, events, error>>
    /\ UNCHANGED retryVars

\* run_post up to the creation of the (detached) session.
RunPostStart ==
    /\ status = "running" /\ pc = "start"
    /\ subcommand = "post"
    /\ ~UrlsMissing(config)
    /\ session' = "open"
    /\ pc' = "home1"
    /\ UNCHANGED <<cleaned, errors_logged, subcommand, base_url, config, page, work, podfic, events,
                   status, error>>
    /\ UNCHANGED retryVars

\* The flow with accept_tos left out.
AfterHomeSkipTos(at) ==
    CASE at = "home1" -> "login"
      [] at = "home2" -> "load_work_data"
      [] at = "home3" -> "np_get"

\* What follows each call of home() in run_describe and run_post.
AfterHome(at) ==
    CASE at = "home1" -> "accept_tos"
      [] at = "home2" -> "load_work_data"
      [] at = "home3" -> "np_get"

\* AO3.home
Home ==
    /\ pc \in {"home1", "home2", "home3"}
    /\ Perform(pc, AfterHome(pc))
    /\ UNCHANGED <<cleaned, errors_logged, subcommand, base_url, config, session, page, work, podfic,
                   status, error>>
    /\ UNCHANGED retryVars

\* AO3.accept_tos up to the call of retry_on_error.
AcceptTosLocate ==
    /\ Perform("accept_tos", "accept_tos_perform")
    /\ RetryEnter("ElementNotInteractableException", DefaultAttempts)
    /\ UNCHANGED <<cleaned, errors_logged, subcommand, base_url, config, session, page, work, podfic,
                   status, error>>

\* AO3.accept_tos from the return of retry_on_error: the clicks were
\* performed; sleep(1).
AcceptTosSettle ==
    /\ rstatus = "returned"
    /\ Perform("accept_tos_perform", "login")
    /\ RetryLeave
    /\ UNCHANGED <<cleaned, errors_logged, subcommand, base_url, config, session, page, work, podfic,
                   status, error>>

\* AO3.login up to the call of retry_on_error.
LoginLocate ==
    /\ Perform("login", "login_perform")
    /\ RetryEnter("ElementNotInteractableException", DefaultAttempts)
    /\ UNCHANGED <<cleaned, errors_logged, subcommand, base_url, config, session, page, work, podfic,
                   status, error>>

\* AO3.login: retry_on_error returned, the login form is open.
LoginOpened ==
    /\ rstatus = "returned"
    /\ Perform("login_perform", "login_fill")
    /\ RetryLeave
    /\ UNCHANGED <<cleaned, errors_logged, subcommand, base_url, config, session, page, work, podfic,
                   status, error>>

\* AO3.login: user name, password from the environment, submit.
LoginFill ==
    /\ Perform("login_fill", "home2")
    /\ UNCHANGED <<cleaned, errors_logged, subcommand, base_url, config, session, page, work, podfic,
                   status, error>>
    /\ UNCHANGED retryVars

\* AO3.login with AO3_PASSWORD not in the environment.
LoginNoPassword ==
    /\ status = "running" /\ pc = "login_fill"
    /\ Raise(SubSeq(StatementEvents(pc), 1, 1), Exc("KeyError", 0))
    /\ UNCHANGED <<cleaned, errors_logged, subcommand, base_url, config, session, page, work, podfic>>
    /\ UNCHANGED retryVars

\* retry_on_error raised inside accept_tos or login: nothing catches it.
RetryRaised ==
    /\ status = "running"
    /\ pc \in {"accept_tos_perform", "login_perform"}
    /\ rstatus = "raised"
    /\ Raise(<<>>, rvalue)
    /\ RetryLeave
    /\ UNCHANGED <<cleaned, errors_logged, subcommand, base_url, config, session, page, work, podfic>>

\* What follows load_work_data in the flow.
AfterLoadAlwaysQuit(sub) == "quit"
AfterLoad(sub) == IF sub = "describe" THEN "quit" ELSE "podfic_work"

\* AO3.load_work_data returning a Work.
LoadWorkData ==
    /\ status = "running" /\ pc = "load_work_data"
    /\ \E p \in Pages :
        LET url == AO3Url(<<"works", config.parent.work_id>>)
            r == LoadWork(p, config.parent.work_id, url)
        IN  /\ r.raises = None
            /\ page' = p
            /\ work' = r.work
    /\ Perform("load_work_data", AfterLoad(subcommand))
    /\ UNCHANGED <<cleaned, errors_logged, subcommand, base_url, config, session, podfic, status, error>>
    /\ UNCHANGED retryVars

\* AO3.load_work_data ending with an exception.
LoadWorkDataRaises ==
    /\ status = "running" /\ pc = "load_work_data"
    /\ \E p \in Pages :
        LET url == AO3Url(<<"works", config.parent.work_id>>)
            r == LoadWork(p, config.parent.work_id, url)
        IN  /\ r.raises # None
            /\ page' = p
            /\ Raise(StatementEvents(pc), r.raises)
    /\ UNCHANGED <<cleaned, errors_logged, subcommand, base_url, config, session, work, podfic>>
    /\ UNCHANGED retryVars

\* run_describe: ao3.quit()
QuitSession ==
    /\ Perform("quit", "describe")
    /\ session' = "quit"
    /\ UNCHANGED <<cleaned, errors_logged, subcommand, base_url, config, page, work, podfic, status,
                   error>>
    /\ UNCHANGED retryVars

\* run_describe: build the PodficEpisode and print its description.
Describe ==
    /\ status = "running" /\ pc = "describe"
    /\ podfic' = [author |-> config.ao3_username,
                  tumblr |-> config.tumblr,
                  parent |-> [work |-> work, config |-> config.parent],
                  urls |-> None]
    /\ status' = "returned"
    /\ pc' = "done"
    /\ UNCHANGED <<cleaned, errors_logged, subcommand, base_url, config, session, page, work, events,
                   error>>
    /\ UNCHANGED retryVars

\* run_post: build the PodficWork, with the urls cleaned.
MakePodficWork ==
    /\ status = "running" /\ pc = "podfic_work"
    /\ podfic' = [author |-> config.ao3_username,
                  tumblr |-> config.tumblr,
                  parent |-> [work |-> work, config |-> config.parent],
                  urls |-> CleanUrls(config.urls)]
    /\ cleaned' = Append(cleaned, CleanUrls(config.urls))
    /\ pc' = "home3"
    /\ UNCHANGED <<errors_logged, subcommand, base_url, config, session, page, work, events,
                   status, error>>
    /\ UNCHANGED retryVars

\* [work_rating] = work.rating unpacks a list of exactly one element.
UnpacksFirstOfSeveral(list) == Len(list) >= 1
UnpacksToOne(list) == Len(list) = 1

\* Whether the statement at `at` gets as far as the browser.
Ready(at) ==
    CASE at = "np_rating" -> UnpacksToOne(work.rating)
      [] at = "np_warnings" -> work.warning # <<>>
      [] OTHER -> TRUE

\* One statement of new_podfic; after the last one new_podfic and run_post
\* return.
NewPodficStep(at) ==
    /\ pc = at
    /\ Ready(at)
    /\ Perform(at, NewPodficNext(at))
    /\ status' = IF NewPodficNext(at) = "done" THEN "returned" ELSE status
    /\ UNCHANGED <<cleaned, errors_logged, subcommand, base_url, config, session, page, work, podfic,
                   error>>
    /\ UNCHANGED retryVars

NewPodficGet == NewPodficStep("np_get")
SelectRating == NewPodficStep("np_rating")
FillWarnings == NewPodficStep("np_warnings")
FillFandom == NewPodficStep("np_fandom")
ClickCategories == NewPodficStep("np_category")
FillRelationship == NewPodficStep("np_relationship")
FillCharacter == NewPodficStep("np_character")
FillFreeform == NewPodficStep("np_freeform")
FillAdditionalTags == NewPodficStep("np_additional")
FillTitle == NewPodficStep("np_title")
FillSummary == NewPodficStep("np_summary")
FillEndNotes == NewPodficStep("np_endnotes")
FillParent == NewPodficStep("np_parent")
FillSeries == NewPodficStep("np_series")
SelectLanguage == NewPodficStep("np_language")
FillContent == NewPodficStep("np_content")

\* [work_rating] = work.rating with no or several ratings.
RatingUnpackFails ==
    /\ status = "running" /\ pc = "np_rating"
    /\ ~UnpacksToOne(work.rating)
    /\ Raise(<<>>, Exc("ValueError", 0))
    /\ UNCHANGED <<cleaned, errors_logged, subcommand, base_url, config, session, page, work, podfic>>
    /\ UNCHANGED retryVars

\* _fill_warnings with no warning: the loop variable was never bound when
\* the else of the for reads it.
FillWarningsUnbound ==
    /\ status = "running" /\ pc = "np_warnings"
    /\ work.warning = <<>>
    /\ Raise(<<>>, Exc("UnboundLocalError", 0))
    /\ UNCHANGED <<cleaned, errors_logged, subcommand, base_url, config, session, page, work, podfic>>
    /\ UNCHANGED retryVars

LookupPcs ==
    {"accept_tos", "login", "login_fill", "np_rating", "np_warnings",
     "np_fandom", "np_category", "np_relationship", "np_character",
     "np_freeform", "np_additional", "np_title", "np_summary", "np_endnotes",
     "np_parent", "np_series", "np_language", "np_content"}

\* An element a statement needs is not on the page: the interactions before
\* it were performed, the lookup raises.
MissingElement ==
    /\ status = "running"
    /\ pc \in LookupPcs
    /\ Ready(pc)
    /\ \E n \in 1..Len(StatementEvents(pc)) :
        Raise(SubSeq(StatementEvents(pc), 1, n - 1),
              MissingElementError(StatementEvents(pc)[n]))
    /\ UNCHANGED <<cleaned, errors_logged, subcommand, base_url, config, session, page, work, podfic>>
    /\ UNCHANGED retryVars

Next ==
    \/ RunDescribeStart \/ RunPostNoUrls \/ RunPostStart
    \/ Home
    \/ AcceptTosLocate \/ AcceptTosSettle
    \/ LoginLocate \/ LoginOpened \/ LoginFill \/ LoginNoPassword
    \/ RetrySuccess \/ RetryCaught \/ RetryUncaught \/ RetryExhausted
    \/ RetryRaised
    \/ LoadWorkData \/ LoadWorkDataRaises
    \/ QuitSession \/ Describe
    \/ MakePodficWork
    \/ NewPodficGet \/ SelectRating \/ RatingUnpackFails
    \/ FillWarnings \/ FillWarningsUnbound
    \/ FillFandom \/ ClickCategories \/ FillRelationship \/ FillCharacter
    \/ FillFreeform \/ FillAdditionalTags
    \/ FillTitle \/ FillSummary \/ FillEndNotes \/ FillParent \/ FillSeries
    \/ SelectLanguage \/ FillContent
    \/ MissingElement

Spec == Init /\ [][Next]_vars


(***************************************************************************)
(* clean_urls on its own.                                                  *)
(***************************************************************************)
MaxUrlLen == 4

\* The characters of the links: two letters (ws is a scheme with a netloc,
\* w and s are not) and the delimiters urlparse looks for.
UrlAlphabet == {"w", "s", ":", "/", ";", "?", "#"}

\* The fields of Urls are any str.
LinkTexts == SeqsUpTo(UrlAlphabet, MaxUrlLen)

\* Urls values: one link is arbitrary, in any of the four fields.
UrlsInputs ==
    {[f \in UrlsFields |-> IF f = at THEN l ELSE SampleUrls[f]] :
        at \in UrlsFields, l \in LinkTexts}

InitUrls ==
    /\ subcommand = "none"
    /\ base_url = None
    /\ config \in {[ao3_username |-> "podficcer",
                    tumblr |-> "podficcer-blog",
                    parent |-> [work_id |-> "1234", explicit |-> FALSE,
                                tumblr |-> None],
                    urls |-> u] : u \in UrlsInputs}
    /\ pc = "clean_urls"
    /\ session = "none"
    /\ page = None
    /\ work = None
    /\ podfic = None
    /\ events = <<>>
    /\ status = "running"
    /\ error = None
    /\ errors_logged = <<>>
    /\ cleaned = <<>>
    /\ error_type = "BaseException"
    /\ attempts0 = 0
    /\ attempts = 0
    /\ final_error = InitialFinalError
    /\ invocations = <<>>
    /\ warnings_logged = 0
    /\ sleeps = 0
    /\ rstatus = "idle"
    /\ rvalue = None

\* config.urls.clean_urls()
CleanUrlsOnce ==
    /\ pc = "clean_urls"
    /\ cleaned' = Append(cleaned, CleanUrls(config.urls))
    /\ pc' = "clean_urls_again"
    /\ UNCHANGED <<subcommand, base_url, config, session, page, work, podfic,
                   events, status, error, errors_logged>>
    /\ UNCHANGED retryVars

\* clean_urls() of the Urls that clean_urls() returned
CleanUrlsAgain ==
    /\ pc = "clean_urls_again"
    /\ cleaned' = Append(cleaned, CleanUrls(cleaned[Len(cleaned)]))
    /\ pc' = "done"
    /\ status' = "returned"
    /\ UNCHANGED <<subcommand, base_url, config, session, page, work, podfic,
                   events, error, errors_logged>>
    /\ UNCHANGED retryVars

NextUrls == CleanUrlsOnce \/ CleanUrlsAgain

SpecUrls == InitUrls /\ [][NextUrls]_vars

(***************************************************************************)
(* Properties of retry_on_error (checked under SpecRetry).                 *)
(***************************************************************************)
\* The first k invocations of action() all raised the guarded kind.
GuardedFailures(k) ==
    \A i \in 1..k :
        /\ ~invocations[i].ok
        /\ IsInstance(invocations[i].exc.kind, error_type)

\* C1: when the action raises the guarded kind on its first k invocations,
\* k < attempts, retry_on_error has not given up; and when invocation k+1
\* then succeeds, retry_on_error returns the value of that invocation,
\* having invoked the action exactly k+1 times with k retries (k warnings,
\* k sleeps).
C1_SuccessAfterTransientFailures ==
    LET n == Len(invocations) IN
    /\ (attempts0 >= 1 /\ n < attempts0 /\ GuardedFailures(n))
          => rstatus = "running"
    /\ (attempts0 >= 1 /\ n >= 1 /\ n <= attempts0 /\ GuardedFailures(n - 1)
            /\ invocations[n].ok)
          => /\ rstatus = "returned"
             /\ rvalue = invocations[n].value
             /\ rvalue.from = n
             /\ warnings_logged = n - 1
             /\ sleeps = n - 1
    /\ rstatus = "returned"
          => /\ n >= 1 /\ n <= attempts0
             /\ GuardedFailures(n - 1)
             /\ invocations[n].ok

\* C1 witness: two guarded failures, then success, with attempts to spare.
C1_Witness ==
    /\ rstatus = "returned"
    /\ Len(invocations) = 3
    /\ attempts0 > 3
    /\ GuardedFailures(2)
    /\ error_type = "ElementNotInteractableException"

\* C2: with attempts = n >= 1 and an action that raises the guarded kind on
\* every invocation, retry_on_error gives up only after exactly n
\* invocations, and what it raises is the exception of the n-th invocation.
C2_ExhaustionRaisesLastError ==
    LET n == Len(invocations) IN
    (attempts0 >= 1 /\ rstatus = "raised" /\ GuardedFailures(n))
        => /\ n = attempts0
           /\ rvalue = invocations[n].exc
           /\ rvalue.by = attempts0
           /\ warnings_logged = attempts0

\* C2 witness: three attempts, three guarded failures, raised.
C2_Witness ==
    /\ rstatus = "raised"
    /\ attempts0 = 3
    /\ Len(invocations) = 3
    /\ GuardedFailures(3)

\* C3: for every value of attempts, zero and negative included, the
\* exception raised when the attempts are exhausted is of the guarded kind.
C3_ExhaustionRaisesGuardedKind ==
    (rstatus = "raised" /\ GuardedFailures(Len(invocations)))
        => IsInstance(rvalue.kind, error_type)

\* C4: an exception of an unguarded kind ends retry_on_error at once: the
\* invocation that raised it is the last one, that exception is the one
\* raised, and no warning, sleep or attempt is spent on it.
C4_UnguardedErrorPropagates ==
    \A i \in 1..Len(invocations) :
        (~invocations[i].ok /\ ~IsInstance(invocations[i].exc.kind, error_type))
            => /\ i = Len(invocations)
               /\ rstatus = "raised"
               /\ rvalue = invocations[i].exc
               /\ warnings_logged = i - 1
               /\ sleeps = i - 1
               /\ attempts = attempts0 - (i - 1)

\* C4 witness: an unguarded exception on the second invocation, with
\* attempts remaining.
C4_Witness ==
    /\ rstatus = "raised"
    /\ Len(invocations) = 2
    /\ attempts >= 2
    /\ ~invocations[2].ok
    /\ ~IsInstance(invocations[2].exc.kind, error_type)

(***************************************************************************)
(* Properties of the form filling (checked under Spec).                    *)
(***************************************************************************)
NewWorkUrl == AO3Url(<<"works", "new">>)

\* The position in events of the navigation to the new-work form (0: none).
FormStart ==
    LET at == {i \in 1..Len(events) : events[i] = Get(NewWorkUrl)}
    IN  IF at = {} THEN 0 ELSE CHOOSE i \in at : \A j \in at : i <= j

\* The interactions with the new-work form so far, after the navigation.
FormEvents == SubSeq(events, FormStart + 1, Len(events))

\* The interactions of the warning step, once it is over: what follows the
\* selection of the rating.
WarningClicks == SubSeq(FormEvents, 2, Len(FormEvents))

WarningStepOver == subcommand = "post" /\ status = "running" /\ pc = "np_fandom"

\* One checkbox per warning: the opt-out checkbox for the sentinel, the
\* checkbox of that value otherwise.
CheckboxPerWarning(warnings) ==
    [i \in 1..Len(warnings) |->
        ClickCheckbox(IF warnings[i] = Sentinel THEN OptOut ELSE warnings[i])]

\* C5: the warning step clicks exactly one checkbox per warning of the
\* work, in list order: the opt-out checkbox for the sentinel warning, the
\* checkbox of the literal value for any other warning.
C5_OneCheckboxPerWarning ==
    WarningStepOver => WarningClicks = CheckboxPerWarning(work.warning)

\* C6: when the only warning of the work is the sentinel, the warning step
\* clicks the opt-out checkbox and nothing else; no checkbox with the
\* literal sentinel text is ever looked up.
C6_SentinelOnlyClicksOptOut ==
    (WarningStepOver /\ work.warning = <<Sentinel>>)
        => /\ WarningClicks = <<ClickCheckbox(OptOut)>>
           /\ \A i \in 1..Len(events) : events[i] # ClickCheckbox(Sentinel)

\* The interactions of the series step, once it is over: what follows the
\* typing of the parent URL.
SeriesStepOver == subcommand = "post" /\ status = "running" /\ pc = "np_language"

ParentUrlAt ==
    CHOOSE i \in 1..Len(events) :
        events[i] = SendUrl("work_parent_attributes_url", work.url)

SeriesStepEvents == SubSeq(events, ParentUrlAt + 1, Len(events))

SeriesIds ==
    {"series-options-show", "work_series_attributes_title",
     "work_series_attributes_id"}

\* C7: with a series part whose part is 1 the series section is revealed
\* and "[podfic] " + series name is typed as the new series title, nothing
\* being selected; with any other part the section is revealed and the
\* series of that name is selected, nothing being typed; with no series part
\* the series section is never touched.
C7_SeriesTieBreak ==
    /\ SeriesStepOver =>
          LET done == SeriesStepEvents
              series_name == T_Podfic \o work.series_part.series
          IN  IF work.series_part = None THEN done = <<>>
              ELSE IF work.series_part.part = 1
              THEN done = <<Click("series-options-show"),
                            SendText("work_series_attributes_title", series_name)>>
              ELSE done = <<Click("series-options-show"),
                            SelectText("work_series_attributes_id", series_name)>>
    /\ \A i \in {j \in 1..Len(events) : events[j].id \in SeriesIds} :
          /\ work # None
          /\ work.series_part # None
          /\ events[i].id = "work_series_attributes_title"
                => work.series_part.part = 1
          /\ events[i].id = "work_series_attributes_id"
                => work.series_part.part # 1

\* C7 witness: the series step is over for a work that is part 2 of its
\* series.
C7_Witness ==
    /\ SeriesStepOver
    /\ work.series_part # None
    /\ work.series_part.part = 2
    /\ Len(SeriesStepEvents) = 2

(***************************************************************************)
(* Properties of the scraping (checked under Spec).                        *)
(***************************************************************************)
\* The label reads "Part " + k digits + " of the" + anything.
LabelHasShape(label, k) ==
    /\ k >= 1
    /\ Len(label) >= Len(T_Part) + k + Len(T_OfThe)
    /\ \A i \in 1..Len(T_Part) : label[i] = T_Part[i]
    /\ \A i \in 1..k : label[Len(T_Part) + i] \in Digits
    /\ \A i \in 1..Len(T_OfThe) : label[Len(T_Part) + k + i] = T_OfThe[i]

LabelMatches(label) == \E k \in 1..Len(label) : LabelHasShape(label, k)

RECURSIVE Pow10(_)
Pow10(n) == IF n = 0 THEN 1 ELSE 10 * Pow10(n - 1)

\* The number N a label of the shape announces.
LabelNumber(label) ==
    LET k == CHOOSE k \in 1..Len(label) : LabelHasShape(label, k)
        digit(c) == CHOOSE d \in 0..9 :
                        <<"0", "1", "2", "3", "4", "5", "6", "7", "8", "9">>[d + 1] = c
        terms == [i \in 1..k |-> digit(label[Len(T_Part) + i]) * Pow10(k - i)]
        sum[i \in 0..k] == IF i = 0 THEN 0 ELSE sum[i - 1] + terms[i]
    IN  sum[k]

\* load_work_data has run, on a page with its title, byline and summary.
Scraped == page # None /\ page.absent = "none"

StageOf(e) ==
    CASE e.op = "get" -> 1
      [] e.op = "select" /\ e.id = "work_rating_string" -> 2
      [] e.op = "click_checkbox" /\ e.value \in WarningTags \cup {OptOut} -> 3
      [] e.id = "work_fandom_autocomplete" -> 4
      [] e.op = "click_checkbox" /\ e.value \in CategoryTags -> 5
      [] e.id = "work_relationship_autocomplete" -> 6
      [] e.id = "work_character_autocomplete" -> 7
      [] e.id = "work_freeform_autocomplete" -> 8
      [] e.op = "send_keys" /\ e.id = "work_title" -> 9
      [] e.op = "send_keys" /\ e.id = "work_summary" -> 10
      [] e.op = "click" /\ e.id = "end-notes-options-show" -> 11
      [] e.op = "send_keys" /\ e.id = "work_endnotes" -> 12
      [] e.op = "click" /\ e.id = "parent-options-show" -> 13
      [] e.op = "send_keys" /\ e.id = "work_parent_attributes_url" -> 14
      [] e.op = "click" /\ e.id = "series-options-show" -> 15
      [] e.id \in {"work_series_attributes_title", "work_series_attributes_id"} -> 16
      [] e.op = "select" /\ e.id = "work_language_id" -> 17
      [] e.op = "send_keys" /\ e.id = "content" -> 18
      [] OTHER -> 0

PostCompleted ==
    subcommand = "post" /\ status = "returned" /\ pc = "done" /\ work # None

\* C9: in a run of the post flow that completes, the form is filled in the
\* order: navigation, rating, warnings, fandoms, categories, relationships,
\* characters, freeform tags, title, summary, end notes revealed then
\* filled, parent section revealed then filled, series section revealed
\* then set (only with a series part), language "English", content; nothing
\* else touches the form and the content is filled last.
C9_FormFillingOrder ==
    PostCompleted =>
        LET start == FormStart
            form == SubSeq(events, start + 1, Len(events))
            stages == [i \in 1..Len(form) |-> StageOf(form[i])]
            seen == {stages[i] : i \in 1..Len(form)}
        IN  /\ start > 0
            /\ \A i \in 1..(start - 1) : StageOf(events[i]) \in {0, 1}
            /\ \A i \in 1..Len(form) : stages[i] # 0
            /\ \A i \in 1..(Len(form) - 1) : stages[i] <= stages[i + 1]
            /\ seen \ {15, 16} = (2..18) \ {15, 16}
            /\ (work.series_part # None) <=> ({15, 16} \subseteq seen)
            /\ (work.series_part = None) <=> (seen \cap {15, 16} = {})
            /\ \A k \in {2, 9, 10, 11, 12, 13, 14, 15, 16, 17, 18} :
                  Cardinality({i \in 1..Len(form) : stages[i] = k}) <= 1
            /\ form[Len(form)] = SendKeys("content", "podfic.content()")
            /\ \E i \in 1..Len(form) :
                  form[i] = SelectValue("work_language_id", "English")

\* C9 witness: a completed post run for a work that is part of a series.
C9_Witness ==
    /\ PostCompleted
    /\ work.series_part # None
    /\ Len(work.warning) = 2

\* C10: in the post flow nothing is ever submitted on the new-work form
\* (the only submit is that of the login form, before the form is opened)
\* and the session is never quit; the session is quit only in the describe
\* flow, once the work has been scraped.
C10_PostLeavesFormOpen ==
    LET start == FormStart
        quits == {i \in 1..Len(events) : events[i].op = "quit"}
        submits == {i \in 1..Len(events) : events[i].op = "submit"}
    IN  /\ subcommand = "post" =>
              /\ session # "quit"
              /\ quits = {}
              /\ \A i \in submits :
                    /\ events[i].id = "user_session_password_small"
                    /\ (start = 0 \/ i < start)
        /\ (session = "quit" \/ quits # {})
              => /\ subcommand = "describe"
                 /\ work # None
                 /\ \A j \in quits : \E i \in 1..(j - 1) :
                       events[i] = Get(AO3Url(<<"works", config.parent.work_id>>))

\* C10 witness: a post run that filled the whole form, its session open.
C10_Witness ==
    /\ PostCompleted
    /\ session = "open"
    /\ \E i \in 1..Len(events) : events[i].op = "submit"

(***************************************************************************)
(* Further properties of the form filling (checked under Spec).            *)
(***************************************************************************)
\* C11: when the work has no rating or several, new_podfic ends with a
\* ValueError at the unpacking of the rating, no field of the form having
\* been selected, clicked or typed into, and nothing is retried; when it
\* has exactly one rating, the first interaction with the form selects that
\* rating by its visible text.
C11_RatingPrecondition ==
    (subcommand = "post" /\ work # None) =>
        LET start == FormStart
            form == SubSeq(events, start + 1, Len(events))
        IN  /\ Len(work.rating) # 1 =>
                  /\ start > 0 => form = <<>>
                  /\ \A i \in 1..Len(events) :
                        events[i].id # "work_rating_string"
                  /\ pc \in {"podfic_work", "home3", "np_get", "np_rating"}
                  /\ pc = "np_rating" /\ status = "raised"
                        => error = Exc("ValueError", 0) /\ rstatus = "idle"
                  /\ status # "returned"
            /\ (Len(work.rating) = 1 /\ start > 0 /\ form # <<>>) =>
                  form[1] = SelectValue("work_rating_string", work.rating[1])
            /\ (Len(work.rating) = 1 /\ pc = "np_rating" /\ status = "raised")
                  => error.kind # "ValueError"

\* C11 witness: a work with two ratings, new_podfic ended by the ValueError
\* right after the navigation to the form.
C11_Witness ==
    /\ subcommand = "post" /\ work # None
    /\ Len(work.rating) = 2
    /\ pc = "np_rating" /\ status = "raised"
    /\ error = Exc("ValueError", 0)
    /\ events[Len(events)] = Get(NewWorkUrl)

(***************************************************************************)
(* Further properties of the session (checked under Spec).                 *)
(***************************************************************************)
\* C12: when the terms-of-service controls are no longer on the page,
\* accept_tos does not end the run: no exception leaves it at the lookup of
\* tos_agree or accept_tos.
C12_AcceptTosToleratesMissingControls ==
    pc = "accept_tos" => status # "raised"

\* The interactions with the parent-work URL field so far.
ParentUrlEvents ==
    SelectSeq(events, LAMBDA e : e.id = "work_parent_attributes_url")

\* C13: the scraped Work carries the caller-supplied work id and the URL
\* navigated to, which is the base URL's scheme and host with the path
\* /works/<work_id>; the parent-work URL typed into the form is that URL.
C13_ParentLinkFidelity ==
    work # None =>
        LET navigated == Url(base_url.scheme, base_url.netloc,
                             <<"works", config.parent.work_id>>)
            typed == ParentUrlEvents
        IN  /\ work.id = config.parent.work_id
            /\ work.url = navigated
            /\ \E i \in 1..Len(events) : events[i] = Get(navigated)
            /\ \A i \in 1..Len(typed) : typed[i] = SendUrl("work_parent_attributes_url", work.url)
            /\ Len(typed) <= 1
            /\ pc \in {"np_series", "np_language", "np_content", "done"}
                  /\ subcommand = "post" => Len(typed) = 1

C13_Witness ==
    /\ work # None
    /\ base_url.path # <<>>
    /\ pc = "np_series"
    /\ ParentUrlEvents = <<SendUrl("work_parent_attributes_url",
                                   Url("http", "localhost:3000", <<"works", "1234">>))>>

\* The interactions with the title field so far.
TitleFieldEvents == SelectSeq(events, LAMBDA e : e.id = "work_title")

AfterTitleStep ==
    /\ subcommand = "post"
    /\ work # None
    /\ pc \in {"np_summary", "np_endnotes", "np_parent", "np_series",
               "np_language", "np_content", "done"}

\* C15: the title field of the form receives the text "[podfic] " followed
\* by the scraped title, once the title step has run, and nothing else at any
\* time.
C15_TitleTransformation ==
    LET typed == TitleFieldEvents
    IN  /\ Len(typed) <= 1
        /\ typed # <<>> =>
              /\ work # None
              /\ typed[1].op = "send_keys"
              /\ typed[1].value = ""
              /\ typed[1].text =
                    <<"[", "p", "o", "d", "f", "i", "c", "]", " ">> \o work.title
        /\ AfterTitleStep => Len(typed) = 1

C15_Witness ==
    /\ AfterTitleStep
    /\ work.title = <<"M", "y", " ", "S", "t", "o", "r", "y">>
    /\ TitleFieldEvents # <<>>
    /\ TitleFieldEvents[1].text =
          <<"[", "p", "o", "d", "f", "i", "c", "]", " ",
            "M", "y", " ", "S", "t", "o", "r", "y">>

\* C16: run_post on a configuration without urls logs an error and returns
\* without raising; no session has been created and the browser has not been
\* touched (no navigation, no login) at any point of that run.
C16_PostWithoutUrls ==
    (subcommand = "post" /\ config.urls = None) =>
        /\ session = "none"
        /\ events = <<>>
        /\ work = None
        /\ rstatus = "idle"
        /\ status # "raised" /\ error = None
        /\ pc \in {"start", "done"}
        /\ pc = "start" => status = "running" /\ errors_logged = <<>>
        /\ pc = "done" => status = "returned" /\ Len(errors_logged) = 1

C16_Witness ==
    /\ subcommand = "post" /\ config.urls = None
    /\ status = "returned"
    /\ session = "none"
    /\ errors_logged = <<"To post a podficced work, you must provide urls.">>

\* The step an interaction opens, "" for an interaction inside a step.
StepOpenedBy(e) ==
    IF e.op = "get"
    THEN IF e.url.path = <<>> THEN "home"
         ELSE IF e.url.path = <<"works", config.parent.work_id>> THEN "load_work_data"
         ELSE IF e.url.path = <<"works", "new">> THEN "new_podfic"
         ELSE ""
    ELSE IF e.op = "find"
    THEN IF e.id = "tos_agree" THEN "accept_tos"
         ELSE IF e.id = "login-dropdown" THEN "login"
         ELSE ""
    ELSE ""

\* The steps opened so far, in order.
StepsOpened ==
    LET opening == SelectSeq(events, LAMBDA e : e.op \in {"get", "find"}
                                                   /\ StepOpenedBy(e) # "")
    IN  [i \in 1..Len(opening) |-> StepOpenedBy(opening[i])]

StepsOfFlow ==
    IF subcommand = "post"
    THEN <<"home", "accept_tos", "login", "home", "load_work_data", "home",
           "new_podfic">>
    ELSE <<"home", "accept_tos", "login", "home", "load_work_data">>

\* The position of the first interaction equal to e, 0 if there is none.
FirstAt(e) ==
    LET at == {i \in 1..Len(events) : events[i] = e}
    IN  IF at = {} THEN 0 ELSE CHOOSE i \in at : \A j \in at : i <= j

NotInteractableFiveTimes ==
    /\ Len(invocations) = 5
    /\ \A i \in 1..5 :
          /\ ~invocations[i].ok
          /\ invocations[i].exc.kind = "ElementNotInteractableException"

SessionOrder ==
    LET steps == StepsOpened
        tosClicked == FirstAt(Click("accept_tos"))
        loginOpened == FirstAt(Find("login-dropdown"))
        submitted == FirstAt(Submit("user_session_password_small"))
        loaded == FirstAt(Get(AO3Url(<<"works", config.parent.work_id>>)))
    IN  /\ Len(steps) <= Len(StepsOfFlow)
        /\ steps = SubSeq(StepsOfFlow, 1, Len(steps))
        /\ loginOpened > 0 => tosClicked > 0 /\ tosClicked < loginOpened
        /\ loaded > 0 => submitted > 0 /\ submitted < loaded
        /\ work # None => loaded > 0
        /\ (pc \in {"accept_tos_perform", "login_perform"} /\ rstatus = "raised"
              /\ rvalue.kind = "ElementNotInteractableException")
              => NotInteractableFiveTimes
        /\ (pc \in {"accept_tos_perform", "login_perform"} /\ status = "raised")
              => /\ work = None
                 /\ steps = SubSeq(StepsOfFlow, 1,
                                   IF pc = "accept_tos_perform" THEN 2 ELSE 3)
                 /\ events[Len(events)] \in
                        {Find("accept_tos"), Find("login-dropdown")}

\* C17: the steps are opened in the order home, accept_tos, login, home,
\* load_work_data (then home, new_podfic when posting); login is opened only
\* after the terms-of-service clicks were performed and load_work_data only
\* after the login form was submitted; five not-interactable errors in a row
\* from the clicks end the run with the last of them, and a run that has
\* ended with an exception takes no further step.
C17_SessionOrdering ==
    /\ [](subcommand \in {"describe", "post"} => SessionOrder)
    /\ [][(rstatus = "running" /\ NotInteractableFiveTimes)
             => /\ rstatus' = "raised"
                /\ rvalue' = Exc("ElementNotInteractableException", 5)
                /\ events' = events]_vars
    /\ [][(rstatus = "raised" /\ subcommand # "none")
             => /\ status' = "raised" /\ error' = rvalue
                /\ events' = events /\ pc' = pc]_vars
    /\ [][status # "raised"]_vars

C17_Witness ==
    /\ subcommand = "post"
    /\ pc = "login_perform" /\ status = "raised"
    /\ error = Exc("ElementNotInteractableException", 5)
    /\ StepsOpened = <<"home", "accept_tos", "login">>

\* The interactions with the freeform autocomplete field so far.
FreeformFieldEvents ==
    SelectSeq(events, LAMBDA e : e.id = "work_freeform_autocomplete")

\* tag, Enter, for each tag of the list in order.
RECURSIVE TypedAndEntered(_)
TypedAndEntered(tags) ==
    IF tags = <<>> THEN <<>>
    ELSE <<SendKeys("work_freeform_autocomplete", Head(tags)),
           SendKeys("work_freeform_autocomplete", "Keys.ENTER")>>
         \o TypedAndEntered(Tail(tags))

AfterFreeformSteps ==
    /\ subcommand = "post"
    /\ work # None
    /\ pc \in {"np_title", "np_summary", "np_endnotes", "np_parent",
               "np_series", "np_language", "np_content", "done"}

\* C18: the freeform field receives the work's freeform tags in order, each
\* followed by Enter, then "Podfic" and "Podfic & Podficced Works", each
\* followed by Enter; the fixed tags come once, after the work's own tags,
\* also when the work has no freeform tag.
C18_FreeformTags ==
    LET typed == FreeformFieldEvents
    IN  typed # <<>> \/ AfterFreeformSteps =>
            LET all == TypedAndEntered(work.freeform \o
                           <<"Podfic", "Podfic & Podficced Works">>)
            IN  /\ Len(typed) <= Len(all)
                /\ typed = SubSeq(all, 1, Len(typed))
                /\ AfterFreeformSteps => typed = all
                /\ pc \in {"np_rating", "np_warnings", "np_fandom", "np_category",
                           "np_relationship", "np_character"}
                      => typed = <<>>

C18_Witness ==
    /\ AfterFreeformSteps
    /\ work.freeform = <<"Fluff", "Angst">>
    /\ Len(FreeformFieldEvents) = 8
    /\ FreeformFieldEvents[3].value = "Angst"
    /\ FreeformFieldEvents[5].value = "Podfic"

C18_WitnessEmpty ==
    /\ AfterFreeformSteps
    /\ work.freeform = <<>>
    /\ Len(FreeformFieldEvents) = 4

\* C19: a work scraped with no warning tag passes the warning step of
\* new_podfic: the step raises nothing and clicks no checkbox, and the form
\* filling goes on with the fandom tags.
C19_EmptyWarningListSubmits ==
    (subcommand = "post" /\ work # None /\ pc = "np_warnings")
        => (work.warning = <<>> => status # "raised")

LoadWorkDataFailed == pc = "load_work_data" /\ status = "raised"

\* C20: a page whose "position in series" element holds no link is scraped
\* as a page without that element: a Work with series_part None, no error,
\* whatever the label reads; a page without its title, byline or summary ends
\* load_work_data with the not-found error and yields no Work.
C20_MissingSeriesLink ==
    page # None =>
        /\ (page.absent = "none" /\ ~page.series.link) =>
              /\ ~LoadWorkDataFailed
              /\ work # None
              /\ work.series_part = None
              /\ work.title = page.title /\ work.warning = page.warning
        /\ page.absent # "none" =>
              /\ work = None
              /\ LoadWorkDataFailed
              /\ error = Exc("NoSuchElementException", 0)
              /\ events[Len(events)] = Get(AO3Url(<<"works", config.parent.work_id>>))
        /\ (LoadWorkDataFailed /\ error.kind = "NoSuchElementException")
              => page.absent # "none"

C20_Witness ==
    /\ page # None
    /\ page.absent = "none"
    /\ page.series.position /\ ~page.series.link
    /\ page.series.label = <<"P", "a", "r", "t">>
    /\ work # None
    /\ work.series_part = None

C20_WitnessAbsentHeading ==
    /\ page # None
    /\ page.absent = "byline"
    /\ page.series.position
    /\ LoadWorkDataFailed

(***************************************************************************)
(* Properties of clean_urls (checked under SpecUrls).                      *)
(***************************************************************************)
\* The link of the cleaned Urls has the scheme, host and path of the link
\* it was made from and no params, query or fragment.
StrippedOnly(link, cleanedLink) ==
    UrlParse[cleanedLink] =
        [UrlParse[link] EXCEPT !.params = <<>>, !.query = <<>>, !.fragment = <<>>]

\* C14: for every Urls value, each of the four links of clean_urls(u) keeps
\* the scheme, host and path of the link in u and has empty params, query
\* and fragment, and clean_urls(clean_urls(u)) = clean_urls(u).
C14_CleanUrlsIdempotentStripsOnly ==
    (subcommand = "none" /\ cleaned # <<>>) =>
        /\ \A f \in UrlsFields : StrippedOnly(config.urls[f], cleaned[1][f])
        /\ Len(cleaned) >= 2 => cleaned[2] = cleaned[1]

====
